---- MODULE Spec2Model ----
(***************************************************************************)
(* A model of the control flow of the learn-cd pipelines:                  *)
(*   - pipelines/diffusion_policy/dp_kitchen.py      (mode dispatch and     *)
(*     the closed-loop rollouts of its inference and rendering branches),  *)
(*   - pipelines/3d_diffusion_policy/dp3_libero.py   (mode dispatch, the    *)
(*     rendering rollout, PointNetAndT5PCLanguageCondition.forward),       *)
(*   - pipelines/dbc_kitchen_old.py                  (pipeline, inference). *)
(* Tensors are abstracted to what the control flow and the claims read:    *)
(* an observation is the number of the env.step call that returned it, an  *)
(* action plan is the number of the policy.sample call that produced it.   *)
(* Rewards are accumulated by the scripts but never read by a condition,   *)
(* so they are left out.                                                   *)
(***************************************************************************)
EXTENDS Integers, Sequences, FiniteSets, TLC

VARIABLES
    \* ---- dp_kitchen.py / dp3_libero.py (__main__) ----
    script,        \* which script runs
    mode,          \* the config value `mode`
    To,            \* observation horizon
    num_act_exec,  \* number of actions of a plan that are executed
    pc,            \* position in the script
    k,             \* episode index of the inference loop
    obs,           \* the conditioning history buffer (obs / pointcloud), slot -> observation
    all_done,      \* env -> BOOLEAN
    act,           \* the plan held in `act` (0: none yet)
    i,             \* index of the for loop over the plan
    t,             \* env.step calls made in this episode
    nsample,       \* policy.sample calls made in this episode
    nexec,         \* env.step calls made since the last policy.sample
    lastAct,       \* the action handed to the last env.step
    frames,        \* number of frames collected
    ckptLoaded,    \* policy.load_state_dict has run
    fitCalled,     \* trainer.fit has run
    rollouts,      \* rollouts (episodes) run to their end
    videoWritten,  \* video.mp4 has been written
    \* ---- dbc_kitchen_old.py ----
    args,          \* the hydra configuration
    ppc,           \* position in pipeline()
    agent,         \* "none" or the diffusion class built
    n_gradient_step,
    updates,       \* calls of agent.update
    saves,         \* calls of logger.save_agent
    finishes,      \* calls of logger.finish
    loads,         \* calls of agent.load
    exc,           \* the exception pipeline() ended with, or NoExc
    ipc,           \* position in inference()
    caller,        \* where inference() returns to
    inf_i,         \* round index of inference()
    inf_t,         \* t of inference()
    resets,        \* calls of envs.reset in the current inference()
    rounds,        \* rounds appended to episode_rewards in the current inference()
    ncalls,        \* calls of inference() that returned
    \* ---- PointNetAndT5PCLanguageCondition.forward ----
    condition,     \* the condition dict
    fpc,           \* position in forward()
    language_embedding,
    language_mask, \* the local variable language_mask
    out,           \* the returned dict, or None
    ferr           \* the exception forward() ended with, or NoExc

rvars == <<script, mode, To, num_act_exec, pc, k, obs, all_done, act, i, t, nsample,
           nexec, lastAct, frames, ckptLoaded, fitCalled, rollouts, videoWritten>>
pvars == <<args, ppc, agent, n_gradient_step, updates, saves, finishes, loads, exc,
           ipc, caller, inf_i, inf_t, resets, rounds, ncalls>>
fvars == <<condition, fpc, language_embedding, language_mask, out, ferr>>
vars == <<rvars, pvars, fvars>>

None == "None"
NoAct == [plan |-> 0, idx |-> 0]   \* no action has been handed to env.step yet
NoExc == [type |-> "none", msg |-> ""]

\* ------------------------------------------------------------------------
\* Bounds of the model
MaxTo == 3            \* To is drawn from 1..MaxTo (the scripts set 2)
MaxActExec == 8       \* num_act_exec is drawn from 1..MaxActExec (the scripts set 8)
MaxEnvs == 2          \* environments of the vector env (the script makes 50)
MaxEpisodes == 2      \* episodes of the inference loop (the script runs 5)
MaxEpisodeSteps == 18 \* the environment's time limit: every env is done by then

MaxGradientSteps == 2 \* args.gradient_steps is drawn from 1..MaxGradientSteps
MaxFreq == 2          \* args.save_freq and args.eval_freq are drawn from {1, MaxFreq}
MaxEvalEpisodes == 3  \* args.eval_episodes is drawn from 1..MaxEvalEpisodes
MaxRollout == 2       \* args.max_episode_steps and args.action_steps are drawn from 1..MaxRollout
MaxBatch == 2         \* batch size of the condition handed to forward()
ActionDim == 1        \* args.action_dim, which the model fixes

\* Program constants
Ta == 16
LangPosLen == 32      \* sequence length of lang_pos_emb

Scripts == {"dp_kitchen", "dp3_libero"}
Modes == {"training", "inference", "rendering"}

\* ------------------------------------------------------------------------
\* dp_kitchen.py / dp3_libero.py

\* The branch of the if/elif chain on `mode` that a script executes.
Branch(s, m) ==
    IF s = "dp_kitchen"
    THEN (IF m = "training" THEN "training"
          ELSE IF m = "inference" THEN "inference"
          ELSE IF m = "rendering" THEN "rendering"
          ELSE "none")
    ELSE (IF m = "training" THEN "training"
          ELSE IF m = "rendering" THEN "rendering"
          ELSE "none")

\* gym.vector.make(..., num_envs=50) in inference, gym.make(...) in rendering.
Envs == IF Branch(script, mode) = "inference" THEN 1..MaxEnvs ELSE {1}

\* np.all(all_done)
AllDone(ad) == \A e \in DOMAIN ad : ad[e]

\* np.logical_or(all_done, done)
LogicalOr(ad, done) == [e \in DOMAIN ad |-> ad[e] \/ (e \in done)]

\* The observation as it is stored in the buffer: dp_kitchen normalizes the
\* state, dp3_libero stores the point cloud as the environment returned it.
Stored(s, step) == [step |-> step, normalized |-> (s = "dp_kitchen")]

\* obs.repeat(1, To, 1) / pointcloud[None, None].repeat(1, To, 1, 1)
RepeatPadding(o) == [j \in 0..(To - 1) |-> o]

\* ShouldStore with a strict comparison (off by one)
ShouldStoreBug(idx) == idx > num_act_exec - To
\* if i >= num_act_exec - To:
ShouldStore(idx) == idx >= num_act_exec - To

\* obs[:, i - num_act_exec + To] = next_obs
ObsSlot(idx) == idx - num_act_exec + To

\* ExecutedAction that always takes the first action of the plan
ExecutedActionBug == [plan |-> act, idx |-> 0]
\* env.step(act[:, i])
ExecutedAction == [plan |-> act, idx |-> i]

\* BreakNow without the early exit from the chunk
BreakNowBug(ad) == FALSE
\* if np.all(all_done): break
BreakNow(ad) == AllDone(ad)

\* The `done` an env.step can return: any set of environments, and every
\* environment once the time limit is reached.
DoneSets(step) == IF step >= MaxEpisodeSteps THEN {Envs} ELSE SUBSET Envs

RolloutIdle ==
    /\ script = "dp_kitchen" /\ mode = "training" /\ To = 1 /\ num_act_exec = 1
    /\ pc = "done" /\ k = 0 /\ obs = <<>> /\ all_done = <<>> /\ act = 0 /\ i = 0
    /\ t = 0 /\ nsample = 0 /\ nexec = 0 /\ lastAct = NoAct /\ frames = 0
    /\ ckptLoaded = FALSE /\ fitCalled = FALSE /\ rollouts = 0 /\ videoWritten = FALSE

PipelineIdle ==
    /\ args = None /\ ppc = "done" /\ agent = "none" /\ n_gradient_step = 0
    /\ updates = 0 /\ saves = 0 /\ finishes = 0 /\ loads = 0 /\ exc = NoExc
    /\ ipc = "idle" /\ caller = None /\ inf_i = 0 /\ inf_t = 0 /\ resets = 0
    /\ rounds = 0 /\ ncalls = 0

ForwardIdle ==
    /\ condition = None /\ fpc = "idle" /\ language_embedding = None
    /\ language_mask = None /\ out = None /\ ferr = NoExc

\* The state when a script starts: the config block has been evaluated.
Init ==
    /\ script \in Scripts
    /\ mode \in Modes
    /\ To \in 1..MaxTo
    /\ num_act_exec \in 1..MaxActExec
    /\ pc = "start"
    /\ k = 0 /\ obs = <<>> /\ all_done = <<>> /\ act = 0 /\ i = 0
    /\ t = 0 /\ nsample = 0 /\ nexec = 0 /\ lastAct = NoAct /\ frames = 0
    /\ ckptLoaded = FALSE /\ fitCalled = FALSE /\ rollouts = 0 /\ videoWritten = FALSE
    /\ PipelineIdle
    /\ ForwardIdle

\* if mode == "training": ... trainer.fit(policy, dataloader)
\* (dp_kitchen loads the checkpoint before it fits, dp3_libero does not)
Training ==
    /\ pc = "start"
    /\ Branch(script, mode) = "training"
    /\ ckptLoaded' = (script = "dp_kitchen")
    /\ fitCalled' = TRUE
    /\ pc' = "done"
    /\ UNCHANGED <<script, mode, To, num_act_exec, k, obs, all_done, act, i, t, nsample,
                   nexec, lastAct, frames, rollouts, videoWritten>>
    /\ UNCHANGED <<pvars, fvars>>

\* elif mode == "inference": make the vector env, load the checkpoint
InferenceSetup ==
    /\ pc = "start"
    /\ Branch(script, mode) = "inference"
    /\ ckptLoaded' = TRUE
    /\ k' = 0
    /\ pc' = "reset"
    /\ UNCHANGED <<script, mode, To, num_act_exec, obs, all_done, act, i, t, nsample,
                   nexec, lastAct, frames, fitCalled, rollouts, videoWritten>>
    /\ UNCHANGED <<pvars, fvars>>

\* elif mode == "rendering": make the env, load the checkpoint
RenderingSetup ==
    /\ pc = "start"
    /\ Branch(script, mode) = "rendering"
    /\ ckptLoaded' = TRUE
    /\ pc' = "reset"
    /\ UNCHANGED <<script, mode, To, num_act_exec, k, obs, all_done, act, i, t, nsample,
                   nexec, lastAct, frames, fitCalled, rollouts, videoWritten>>
    /\ UNCHANGED <<pvars, fvars>>

\* No branch of the if/elif chain matches: the script ends.
NoBranch ==
    /\ pc = "start"
    /\ Branch(script, mode) = "none"
    /\ pc' = "done"
    /\ UNCHANGED <<script, mode, To, num_act_exec, k, obs, all_done, act, i, t, nsample,
                   nexec, lastAct, frames, ckptLoaded, fitCalled, rollouts, videoWritten>>
    /\ UNCHANGED <<pvars, fvars>>

\* obs, all_done, all_rew = env.reset(), False, 0 ; repeat padding ; frames = []
\* (dp3_libero appends the frame of the reset observation)
Reset ==
    /\ pc = "reset"
    /\ obs' = RepeatPadding(Stored(script, 0))
    /\ all_done' = [e \in Envs |-> FALSE]
    /\ t' = 0 /\ nsample' = 0 /\ nexec' = 0
    /\ frames' = IF script = "dp3_libero" THEN 1 ELSE 0
    /\ pc' = "while"
    /\ UNCHANGED <<script, mode, To, num_act_exec, k, act, i, lastAct, ckptLoaded,
                   fitCalled, rollouts, videoWritten>>
    /\ UNCHANGED <<pvars, fvars>>

\* while not np.all(all_done): act, log = policy.sample(..., condition_cfg=obs, ...)
Sample ==
    /\ pc = "while"
    /\ ~AllDone(all_done)
    /\ nsample' = nsample + 1
    /\ act' = nsample + 1
    /\ nexec' = 0
    /\ i' = 0
    /\ pc' = "for"
    /\ UNCHANGED <<script, mode, To, num_act_exec, k, obs, all_done, t, lastAct, frames,
                   ckptLoaded, fitCalled, rollouts, videoWritten>>
    /\ UNCHANGED <<pvars, fvars>>

\* One iteration of `for i in range(num_act_exec)`.
Step ==
    /\ pc = "for"
    /\ i < num_act_exec
    /\ \E done \in DoneSets(t + 1) :
        /\ lastAct' = ExecutedAction
        /\ t' = t + 1
        /\ nexec' = nexec + 1
        /\ all_done' = LogicalOr(all_done, done)
        /\ frames' = IF Branch(script, mode) = "rendering" THEN frames + 1 ELSE frames
        /\ obs' = IF ShouldStore(i)
                  THEN [obs EXCEPT ![ObsSlot(i)] = Stored(script, t + 1)]
                  ELSE obs
        /\ IF BreakNow(all_done') \/ i + 1 >= num_act_exec
           THEN pc' = "while" /\ i' = i
           ELSE pc' = "for" /\ i' = i + 1
    /\ UNCHANGED <<script, mode, To, num_act_exec, k, act, nsample, ckptLoaded,
                   fitCalled, rollouts, videoWritten>>
    /\ UNCHANGED <<pvars, fvars>>

\* The while loop ends.
WhileExit ==
    /\ pc = "while"
    /\ AllDone(all_done)
    /\ rollouts' = rollouts + 1
    /\ pc' = "episode_end"
    /\ UNCHANGED <<script, mode, To, num_act_exec, k, obs, all_done, act, i, t, nsample,
                   nexec, lastAct, frames, ckptLoaded, fitCalled, videoWritten>>
    /\ UNCHANGED <<pvars, fvars>>

\* inference: success_rate[k, :] is filled, then the next k (5 episodes in
\* the script); after the last one the success rate is printed, env.close().
InferenceEpisodeEnd ==
    /\ pc = "episode_end"
    /\ Branch(script, mode) = "inference"
    /\ k' = k + 1
    /\ pc' = IF k + 1 < MaxEpisodes THEN "reset" ELSE "done"
    /\ UNCHANGED <<script, mode, To, num_act_exec, obs, all_done, act, i, t, nsample,
                   nexec, lastAct, frames, ckptLoaded, fitCalled, rollouts, videoWritten>>
    /\ UNCHANGED <<pvars, fvars>>

\* rendering: the frames are written to video.mp4, env.close().
WriteVideo ==
    /\ pc = "episode_end"
    /\ Branch(script, mode) = "rendering"
    /\ videoWritten' = TRUE
    /\ pc' = "done"
    /\ UNCHANGED <<script, mode, To, num_act_exec, k, obs, all_done, act, i, t, nsample,
                   nexec, lastAct, frames, ckptLoaded, fitCalled, rollouts>>
    /\ UNCHANGED <<pvars, fvars>>

Next ==
    \/ Training
    \/ InferenceSetup
    \/ RenderingSetup
    \/ NoBranch
    \/ Reset
    \/ Sample
    \/ Step
    \/ WhileExit
    \/ InferenceEpisodeEnd
    \/ WriteVideo

Spec == Init /\ [][Next]_vars

\* ------------------------------------------------------------------------
\* Claims about the rollouts

\* C1: with 1 <= To <= num_act_exec, whenever policy.sample is about to be
\* called the history buffer holds the To most recent observations in
\* chronological order: To copies of the reset observation at the first call
\* of an episode, and afterwards slot j holds the observation returned by
\* step number num_act_exec-To+1+j of the preceding action chunk.
C1_HistoryBuffer ==
    (pc = "while" /\ ~AllDone(all_done) /\ 1 <= To /\ To <= num_act_exec) =>
        /\ DOMAIN obs = 0..(To - 1)
        /\ obs[To - 1].step = t
        /\ \A j \in 0..(To - 1) :
            obs[j].step = IF nsample = 0 THEN 0
                          ELSE (nsample - 1) * num_act_exec + (num_act_exec - To + 1 + j)

\* A second or later policy.sample call is due, with a history of several
\* slots that is shorter than the chunk.
C1_Witness ==
    /\ pc = "while" /\ ~AllDone(all_done)
    /\ nsample >= 2 /\ To >= 2 /\ To < num_act_exec

\* C2: sampling and acting alternate: every env.step executes the action
\* whose index is the number of steps made since the most recent
\* policy.sample call, taken from that call's plan, with an index below
\* num_act_exec (<= Ta); and between two policy.sample calls, and between the
\* last one and the end of the episode, at least one and at most num_act_exec
\* steps are made.
C2_RecedingHorizon ==
    /\ [][t' = t + 1 =>
            /\ nsample >= 1
            /\ lastAct'.plan = nsample
            /\ lastAct'.idx = nexec
            /\ lastAct'.idx < num_act_exec
            /\ num_act_exec <= Ta]_vars
    /\ [][(nsample' = nsample + 1 /\ nsample >= 1) =>
            (nexec >= 1 /\ nexec <= num_act_exec)]_vars
    /\ []((pc = "episode_end" /\ nsample >= 1) => (nexec >= 1 /\ nexec <= num_act_exec))

\* The third action of the second plan of an episode has just been executed.
C2_Witness ==
    /\ pc \in {"for", "while"} /\ nsample = 2 /\ nexec = 3
    /\ lastAct = [plan |-> 2, idx |-> 2]

\* C3: all_done is monotone within an episode, and once every environment is
\* flagged done no further env.step and no further policy.sample is made in
\* that episode.
C3_StopWhenAllDone ==
    /\ [][pc # "reset" =>
            \A e \in DOMAIN all_done : all_done[e] => all_done'[e]]_vars
    /\ [][(pc # "reset" /\ all_done # <<>> /\ AllDone(all_done)) =>
            (t' = t /\ nsample' = nsample)]_vars

\* Every environment became done in the middle of an action chunk.
C3_Witness ==
    /\ pc = "episode_end" /\ AllDone(all_done)
    /\ nexec >= 1 /\ nexec < num_act_exec
    /\ Branch(script, mode) = "inference"

\* C4: each of the three modes named by the config comment has a non-empty
\* branch in both scripts: training fits, inference loads the checkpoint and
\* runs a rollout, rendering loads the checkpoint, runs a rollout and writes
\* a video.
C4_EveryModeHasBranch ==
    pc = "done" =>
        /\ mode = "training" => fitCalled
        /\ mode = "inference" => (ckptLoaded /\ rollouts >= 1)
        /\ mode = "rendering" => (ckptLoaded /\ rollouts >= 1 /\ videoWritten)

\* ------------------------------------------------------------------------
\* dbc_kitchen_old.py
\* (logger.log and print only write; they are not modelled)

NNs == {"pearce_mlp", "dit", "chi_unet"}
Diffusions == {"ddpm", "edm", "ddim"}
PipelineModes == {"train", "inference", "eval"}
ModelPaths == {"", "model.pt"}

Args ==
    [nn : NNs, diffusion : Diffusions, mode : PipelineModes, model_path : ModelPaths,
     gradient_steps : 1..MaxGradientSteps,
     save_freq : {1, MaxFreq}, eval_freq : {1, MaxFreq},
     eval_episodes : 1..MaxEvalEpisodes, num_envs : 1..MaxEnvs,
     max_episode_steps : 1..MaxRollout, action_steps : 1..MaxRollout]

\* if args.nn == "pearce_mlp": ... elif args.nn == "dit": ... else: raise
ValidNN(nn) == nn \in {"pearce_mlp", "dit"}

\* ValidDiffusion that also lets the solver name "ddim" of inference() through
ValidDiffusionBug(d) == d \in {"ddpm", "edm", "ddim"}
\* if args.diffusion == "ddpm": ... elif args.diffusion == "edm": ... else: raise
ValidDiffusion(d) == d \in {"ddpm", "edm"}

\* range(args.eval_episodes // args.num_envs)
NumRounds(a) == a.eval_episodes \div a.num_envs

\* if n_gradient_step > args.gradient_steps:
TrainingFinished(n, a) == n > a.gradient_steps

ValueError(m) == [type |-> "ValueError", msg |-> m]

\* The size of the array agent.sample returns: it has the shape of the prior,
\* (num_envs, action_dim) for pearce_mlp and (num_envs, action_steps,
\* action_dim) for dit.  (pipeline() has rejected every other args.nn.)
SampledSize(a) ==
    IF a.nn = "pearce_mlp"
    THEN a.num_envs * ActionDim
    ELSE a.num_envs * a.action_steps * ActionDim

\* action_pred.reshape(args.num_envs, 1, args.action_dim) needs as many
\* elements as the new shape holds.
ReshapeFits(a) == SampledSize(a) = a.num_envs * 1 * ActionDim

\* numpy's error for a reshape that does not fit; numpy writes the shape
\* with its dimensions joined by "," and no space.
ReshapeError(a) ==
    ValueError("cannot reshape array of size " \o ToString(SampledSize(a))
               \o " into shape (" \o ToString(a.num_envs) \o ",1,"
               \o ToString(ActionDim) \o ")")
NotImplementedError == [type |-> "NotImplementedError", msg |-> ""]
AxisError == [type |-> "AxisError", msg |-> "axis 1 is out of bounds for array of dimension 1"]

InitPipeline ==
    /\ args \in Args
    /\ ppc = "nn" /\ agent = "none" /\ n_gradient_step = 0
    /\ updates = 0 /\ saves = 0 /\ finishes = 0 /\ loads = 0 /\ exc = NoExc
    /\ ipc = "idle" /\ caller = None /\ inf_i = 0 /\ inf_t = 0 /\ resets = 0
    /\ rounds = 0 /\ ncalls = 0
    /\ RolloutIdle
    /\ ForwardIdle

\* pipeline(): logger, envs, dataset, then the choice of the networks.
CreateModel ==
    /\ ppc = "nn"
    /\ IF ValidNN(args.nn)
       THEN ppc' = "diffusion" /\ exc' = exc
       ELSE ppc' = "done" /\ exc' = ValueError("Invalid nn type " \o args.nn)
    /\ UNCHANGED <<args, agent, n_gradient_step, updates, saves, finishes, loads,
                   ipc, caller, inf_i, inf_t, resets, rounds, ncalls>>
    /\ UNCHANGED <<rvars, fvars>>

\* pipeline(): the choice of the diffusion class.
CreateAgent ==
    /\ ppc = "diffusion"
    /\ IF ValidDiffusion(args.diffusion)
       THEN /\ agent' = IF args.diffusion = "ddpm" THEN "DDPM" ELSE "EDM"
            /\ ppc' = "mode" /\ exc' = exc
       ELSE /\ agent' = agent
            /\ ppc' = "done" /\ exc' = NotImplementedError
    /\ UNCHANGED <<args, n_gradient_step, updates, saves, finishes, loads,
                   ipc, caller, inf_i, inf_t, resets, rounds, ncalls>>
    /\ UNCHANGED <<rvars, fvars>>

\* if args.mode == "train": n_gradient_step = 0 ...
StartTraining ==
    /\ ppc = "mode"
    /\ args.mode = "train"
    /\ n_gradient_step' = 0
    /\ ppc' = "train"
    /\ UNCHANGED <<args, agent, updates, saves, finishes, loads, exc,
                   ipc, caller, inf_i, inf_t, resets, rounds, ncalls>>
    /\ UNCHANGED <<rvars, fvars>>

\* The entry of inference(args, envs, dataset, agent, logger).
CallInference(from) ==
    /\ ppc' = "inference"
    /\ caller' = from
    /\ ipc' = "for"
    /\ inf_i' = 0 /\ inf_t' = 0 /\ resets' = 0 /\ rounds' = 0

\* elif args.mode == "inference": if args.model_path: agent.load(...) ;
\* ... inference(args, envs, dataset, agent, logger)
StartInference ==
    /\ ppc = "mode"
    /\ args.mode = "inference"
    /\ args.model_path # ""
    /\ loads' = loads + 1
    /\ CallInference("inference")
    /\ UNCHANGED <<args, agent, n_gradient_step, updates, saves, finishes, exc, ncalls>>
    /\ UNCHANGED <<rvars, fvars>>

\* else: raise ValueError("Empty model for inference")
EmptyModel ==
    /\ ppc = "mode"
    /\ args.mode = "inference"
    /\ args.model_path = ""
    /\ exc' = ValueError("Empty model for inference")
    /\ ppc' = "done"
    /\ UNCHANGED <<args, agent, n_gradient_step, updates, saves, finishes, loads,
                   ipc, caller, inf_i, inf_t, resets, rounds, ncalls>>
    /\ UNCHANGED <<rvars, fvars>>

\* else: raise ValueError("Illegal mode")
IllegalMode ==
    /\ ppc = "mode"
    /\ args.mode \notin {"train", "inference"}
    /\ exc' = ValueError("Illegal mode")
    /\ ppc' = "done"
    /\ UNCHANGED <<args, agent, n_gradient_step, updates, saves, finishes, loads,
                   ipc, caller, inf_i, inf_t, resets, rounds, ncalls>>
    /\ UNCHANGED <<rvars, fvars>>

\* One iteration of the training loop up to the evaluation: agent.update,
\* logger.save_agent every save_freq steps, inference every eval_freq steps.
TrainUpdate ==
    /\ ppc = "train"
    /\ updates' = updates + 1
    /\ saves' = IF n_gradient_step % args.save_freq = 0 THEN saves + 1 ELSE saves
    /\ IF n_gradient_step % args.eval_freq = 0
       THEN CallInference("train")
       ELSE /\ ppc' = "advance"
            /\ UNCHANGED <<ipc, caller, inf_i, inf_t, resets, rounds>>
    /\ UNCHANGED <<args, agent, n_gradient_step, finishes, loads, exc, ncalls>>
    /\ UNCHANGED <<rvars, fvars>>

\* n_gradient_step += 1 ; if n_gradient_step > args.gradient_steps: finish, break
TrainAdvance ==
    /\ ppc = "advance"
    /\ n_gradient_step' = n_gradient_step + 1
    /\ IF TrainingFinished(n_gradient_step + 1, args)
       THEN finishes' = finishes + 1 /\ ppc' = "done"
       ELSE finishes' = finishes /\ ppc' = "train"
    /\ UNCHANGED <<args, agent, updates, saves, loads, exc,
                   ipc, caller, inf_i, inf_t, resets, rounds, ncalls>>
    /\ UNCHANGED <<rvars, fvars>>

\* inference(): for i in range(args.eval_episodes // args.num_envs): envs.reset()
InfRoundStart ==
    /\ ipc = "for"
    /\ inf_i < NumRounds(args)
    /\ resets' = resets + 1
    /\ inf_t' = 0
    /\ ipc' = "while"
    /\ UNCHANGED <<args, ppc, agent, n_gradient_step, updates, saves, finishes, loads,
                   exc, caller, inf_i, rounds, ncalls>>
    /\ UNCHANGED <<rvars, fvars>>

\* inference(): while t < args.max_episode_steps: sample, envs.step, t += action_steps
InfStep ==
    /\ ipc = "while"
    /\ inf_t < args.max_episode_steps
    /\ ReshapeFits(args)
    /\ inf_t' = inf_t + args.action_steps
    /\ UNCHANGED <<args, ppc, agent, n_gradient_step, updates, saves, finishes, loads,
                   exc, ipc, caller, inf_i, resets, rounds, ncalls>>
    /\ UNCHANGED <<rvars, fvars>>

\* inference(): the sampled actions do not reshape to (num_envs, 1, action_dim):
\* the reshape raises before envs.step, and pipeline() ends with the exception.
InfReshapeError ==
    /\ ipc = "while"
    /\ inf_t < args.max_episode_steps
    /\ ~ReshapeFits(args)
    /\ exc' = ReshapeError(args)
    /\ ipc' = "raised"
    /\ ppc' = "done"
    /\ UNCHANGED <<args, agent, n_gradient_step, updates, saves, finishes, loads,
                   caller, inf_i, inf_t, resets, rounds, ncalls>>
    /\ UNCHANGED <<rvars, fvars>>

\* inference(): the round's report "[Episode a-b]" and the appends to the lists
InfRoundEnd ==
    /\ ipc = "while"
    /\ inf_t >= args.max_episode_steps
    /\ rounds' = rounds + 1
    /\ inf_i' = inf_i + 1
    /\ ipc' = "for"
    /\ UNCHANGED <<args, ppc, agent, n_gradient_step, updates, saves, finishes, loads,
                   exc, caller, inf_t, resets, ncalls>>
    /\ UNCHANGED <<rvars, fvars>>

\* inference(): the metrics are computed and returned to the caller.
InfReturn ==
    /\ ipc = "for"
    /\ inf_i >= NumRounds(args)
    /\ rounds > 0
    /\ ncalls' = ncalls + 1
    /\ ipc' = "returned"
    /\ ppc' = IF caller = "train" THEN "advance" ELSE "done"
    /\ UNCHANGED <<args, agent, n_gradient_step, updates, saves, finishes, loads,
                   exc, caller, inf_i, inf_t, resets, rounds>>
    /\ UNCHANGED <<rvars, fvars>>

\* inference(): with no round run, np.mean(np.array([]), axis=(0, 1)) raises.
InfAxisError ==
    /\ ipc = "for"
    /\ inf_i >= NumRounds(args)
    /\ rounds = 0
    /\ exc' = AxisError
    /\ ipc' = "raised"
    /\ ppc' = "done"
    /\ UNCHANGED <<args, agent, n_gradient_step, updates, saves, finishes, loads,
                   caller, inf_i, inf_t, resets, rounds, ncalls>>
    /\ UNCHANGED <<rvars, fvars>>

NextPipeline ==
    \/ CreateModel
    \/ CreateAgent
    \/ StartTraining
    \/ StartInference
    \/ EmptyModel
    \/ IllegalMode
    \/ TrainUpdate
    \/ TrainAdvance
    \/ InfRoundStart
    \/ InfStep
    \/ InfReshapeError
    \/ InfRoundEnd
    \/ InfReturn
    \/ InfAxisError

SpecPipeline == InitPipeline /\ [][NextPipeline]_vars

\* ------------------------------------------------------------------------
\* Claims about dbc_kitchen_old.py

\* The configurations the claim calls invalid, in the claim's own words.
BadNN(a) == a.nn \notin {"pearce_mlp", "dit"}
BadDiffusion(a) == a.diffusion \notin {"ddpm", "edm"}

InvalidConfig(a) ==
    \/ BadNN(a)
    \/ BadDiffusion(a)
    \/ (a.mode = "inference" /\ a.model_path = "")
    \/ a.mode \notin {"train", "inference"}

NoAgentSideEffect ==
    /\ updates = 0 /\ saves = 0 /\ loads = 0
    /\ resets = 0 /\ ncalls = 0 /\ ipc = "idle"

\* C5 as stated: pipeline raises ValueError when args.nn is invalid,
\* NotImplementedError when args.diffusion is invalid, ValueError('Empty model
\* for inference') when mode is 'inference' and model_path is empty,
\* ValueError('Illegal mode') when mode is neither 'train' nor 'inference';
\* in each of these cases no agent.update, logger.save_agent, agent.load or
\* inference rollout has been executed.
C5_Original ==
    /\ InvalidConfig(args) => NoAgentSideEffect
    /\ ppc = "done" =>
        /\ BadNN(args) => exc.type = "ValueError"
        /\ BadDiffusion(args) => exc = NotImplementedError
        /\ (args.mode = "inference" /\ args.model_path = "") =>
              exc = ValueError("Empty model for inference")
        /\ args.mode \notin {"train", "inference"} => exc = ValueError("Illegal mode")

\* C5 amended: the checks are made in the order nn, diffusion, mode, and the
\* first one that fails decides the exception: ValueError when args.nn is
\* invalid; NotImplementedError when args.nn is valid and args.diffusion is
\* not; with both valid, ValueError('Empty model for inference') when mode is
\* 'inference' and model_path is empty and ValueError('Illegal mode') when
\* mode is neither 'train' nor 'inference'.  In each of these cases no
\* agent.update, logger.save_agent, agent.load or inference rollout has been
\* executed.
C5_RejectsInvalidConfig ==
    /\ InvalidConfig(args) => NoAgentSideEffect
    /\ InvalidConfig(args) => ppc \in {"nn", "diffusion", "mode", "done"}
    /\ ppc = "done" =>
        /\ BadNN(args) => exc = ValueError("Invalid nn type " \o args.nn)
        /\ (~BadNN(args) /\ BadDiffusion(args)) =>
              exc = NotImplementedError
        /\ (~BadNN(args) /\ ~BadDiffusion(args)
              /\ args.mode = "inference" /\ args.model_path = "") =>
              exc = ValueError("Empty model for inference")
        /\ (~BadNN(args) /\ ~BadDiffusion(args)
              /\ args.mode \notin {"train", "inference"}) =>
              exc = ValueError("Illegal mode")

\* A configuration with an invalid diffusion and an empty model path for
\* inference has been rejected at the diffusion check.
C5_Witness ==
    /\ ppc = "done" /\ exc = NotImplementedError
    /\ args.mode = "inference" /\ args.model_path = ""

\* C8: inference evaluates args.eval_episodes episodes: when it ends, the
\* number of rounds times num_envs equals eval_episodes, and envs.reset was
\* called once per round.
C8_EvaluatesAllEpisodes ==
    ipc = "returned" =>
        /\ rounds * args.num_envs = args.eval_episodes
        /\ resets = rounds

\* C9: in mode 'train' the loop performs args.gradient_steps calls of
\* agent.update, then calls logger.finish exactly once and stops: no update
\* follows logger.finish.
C9_GradientSteps ==
    args.mode = "train" =>
        /\ updates <= args.gradient_steps
        /\ finishes <= 1
        /\ finishes = 1 => ppc = "done"
        /\ (ppc = "done" /\ exc = NoExc) =>
              (updates = args.gradient_steps /\ finishes = 1)

\* ------------------------------------------------------------------------
\* dp3_libero.py: PointNetAndT5PCLanguageCondition
\* A batch of sentences is the sequence of their token counts; a mask is a
\* sequence (batch) of rows of 0/1; a missing dict entry (Python None) is the
\* empty sequence for `language` and `language_mask` and NoEmbedding for
\* `language_embedding`.

Missing == <<>>
NoEmbedding == [src |-> "none", len |-> 0]
NoOut == [returned |-> FALSE]

Max(S) == CHOOSE x \in S : \A y \in S : y <= x

\* An attention mask row: `valid` ones followed by zeros.
PrefixMask(len, valid) == [tt \in 1..len |-> IF tt <= valid THEN 1 ELSE 0]

\* language_encode: tokenizer(sentences, padding=True) pads every sentence to
\* the longest one; the T5 encoder keeps the sequence length.
LanguageEncode(sentences) ==
    LET longest == Max({sentences[b] : b \in DOMAIN sentences})
    IN  [embedding |-> [src |-> "t5", len |-> longest],
         mask |-> [b \in DOMAIN sentences |-> PrefixMask(longest, sentences[b])]]

\* language_mask.to(torch.bool)
ToBool(m) == [b \in DOMAIN m |-> [tt \in DOMAIN m[b] |-> m[b][tt] # 0]]

\* LogicalNot left out: the attention mask is handed on as it is
LogicalNotBug(m) == m
\* torch.logical_not(...)
LogicalNot(m) == [b \in DOMAIN m |-> [tt \in DOMAIN m[b] |-> ~m[b][tt]]]

\* assert language is not None or language_embedding is not None
AssertionPasses(language, embedding) == language # Missing \/ embedding # NoEmbedding

\* lang_feat + self.lang_pos_emb broadcasts (B, L, d) with (1, 32, d).
Broadcasts(len) == len = LangPosLen \/ len = 1

TokenCounts == {1, 2, LangPosLen - 1, LangPosLen}
Languages == {Missing} \cup UNION {[1..B -> TokenCounts] : B \in 1..MaxBatch}
Embeddings == {NoEmbedding} \cup {[src |-> "supplied", len |-> L] : L \in {2, LangPosLen}}
MaskRows == {PrefixMask(L, v) : L \in {2, LangPosLen}, v \in {0, 1, 2}}
LanguageMasks == {Missing} \cup UNION {[1..B -> MaskRows] : B \in 1..MaxBatch}

InitForward ==
    /\ condition \in [pointcloud : BOOLEAN, language : Languages,
                      language_embedding : Embeddings, language_mask : LanguageMasks]
    /\ fpc = "start"
    /\ language_embedding = NoEmbedding
    /\ language_mask = Missing
    /\ out = NoOut
    /\ ferr = NoExc
    /\ RolloutIdle
    /\ PipelineIdle

\* pointcloud = condition["pointcloud"] with no such key
FwdKeyError ==
    /\ fpc = "start"
    /\ ~condition.pointcloud
    /\ ferr' = [type |-> "KeyError", msg |-> "pointcloud"]
    /\ fpc' = "raised"
    /\ UNCHANGED <<condition, language_embedding, language_mask, out>>
    /\ UNCHANGED <<rvars, pvars>>

\* The assertion fails.
FwdAssertFail ==
    /\ fpc = "start"
    /\ condition.pointcloud
    /\ ~AssertionPasses(condition.language, condition.language_embedding)
    /\ ferr' = [type |-> "AssertionError",
                msg |-> "Either language or language_embedding and language_mask must be provided."]
    /\ fpc' = "raised"
    /\ UNCHANGED <<condition, language_embedding, language_mask, out>>
    /\ UNCHANGED <<rvars, pvars>>

\* The condition.get(...) lines and the assertion, which passes.
FwdAssertPass ==
    /\ fpc = "start"
    /\ condition.pointcloud
    /\ AssertionPasses(condition.language, condition.language_embedding)
    /\ language_embedding' = condition.language_embedding
    /\ language_mask' = condition.language_mask
    /\ fpc' = "encode"
    /\ UNCHANGED <<condition, out, ferr>>
    /\ UNCHANGED <<rvars, pvars>>

\* if language is not None: language_embedding, language_mask = self.language_encode(language)
FwdEncode ==
    /\ fpc = "encode"
    /\ IF condition.language # Missing
       THEN /\ language_embedding' = LanguageEncode(condition.language).embedding
            /\ language_mask' = LanguageEncode(condition.language).mask
       ELSE UNCHANGED <<language_embedding, language_mask>>
    /\ fpc' = "mask"
    /\ UNCHANGED <<condition, out, ferr>>
    /\ UNCHANGED <<rvars, pvars>>

\* if language_mask is not None: language_mask = torch.logical_not(language_mask.to(torch.bool))
FwdMask ==
    /\ fpc = "mask"
    /\ language_mask' = IF language_mask # Missing
                        THEN LogicalNot(ToBool(language_mask))
                        ELSE language_mask
    /\ fpc' = "feat"
    /\ UNCHANGED <<condition, language_embedding, out, ferr>>
    /\ UNCHANGED <<rvars, pvars>>

\* The features are computed and the dict is returned.
FwdReturn ==
    /\ fpc = "feat"
    /\ Broadcasts(language_embedding.len)
    /\ out' = [returned |-> TRUE,
               vec_condition |-> "pc_feat",
               seq_condition |-> [src |-> language_embedding.src, len |-> LangPosLen],
               seq_condition_mask |-> language_mask]
    /\ fpc' = "returned"
    /\ UNCHANGED <<condition, language_embedding, language_mask, ferr>>
    /\ UNCHANGED <<rvars, pvars>>

\* lang_feat + self.lang_pos_emb with a sequence length that does not broadcast
FwdShapeError ==
    /\ fpc = "feat"
    /\ ~Broadcasts(language_embedding.len)
    /\ ferr' = [type |-> "RuntimeError", msg |-> "size of tensor a must match size of tensor b"]
    /\ fpc' = "raised"
    /\ UNCHANGED <<condition, language_embedding, language_mask, out>>
    /\ UNCHANGED <<rvars, pvars>>

NextForward ==
    \/ FwdKeyError
    \/ FwdAssertFail
    \/ FwdAssertPass
    \/ FwdEncode
    \/ FwdMask
    \/ FwdReturn
    \/ FwdShapeError

SpecForward == InitForward /\ [][NextForward]_vars

\* ------------------------------------------------------------------------
\* Claims about PointNetAndT5PCLanguageCondition.forward

\* C6: a call whose condition has no 'language' and lacks
\* 'language_embedding' or lacks 'language_mask' fails with an AssertionError
\* and returns no condition output (the call has a point cloud, and an
\* embedding, when supplied, has the length of lang_pos_emb).
C6_AssertsEmbeddingAndMask ==
    (/\ fpc \in {"returned", "raised"}
     /\ condition.pointcloud
     /\ condition.language = Missing
     /\ (condition.language_embedding = NoEmbedding \/ condition.language_mask = Missing)
     /\ (condition.language_embedding # NoEmbedding =>
            condition.language_embedding.len = LangPosLen))
    => (ferr.type = "AssertionError" /\ out = NoOut)

\* The attention mask in effect: the one language_encode produces when
\* 'language' is given, otherwise the supplied 'language_mask'.
MaskInEffect ==
    IF condition.language # Missing
    THEN LanguageEncode(condition.language).mask
    ELSE condition.language_mask

\* C7: the returned seq_condition_mask is a padding mask: it is True at [b,t]
\* exactly when the attention mask in effect is 0 at [b,t].
C7_PaddingMask ==
    (fpc = "returned" /\ MaskInEffect # Missing) =>
        /\ DOMAIN out.seq_condition_mask = DOMAIN MaskInEffect
        /\ \A b \in DOMAIN MaskInEffect :
            /\ DOMAIN out.seq_condition_mask[b] = DOMAIN MaskInEffect[b]
            /\ \A tt \in DOMAIN MaskInEffect[b] :
                out.seq_condition_mask[b][tt] = (MaskInEffect[b][tt] = 0)

\* forward returned for a batch of two sentences of different lengths, given
\* together with a supplied language_mask that the encoding overrides.
C7_Witness ==
    /\ fpc = "returned"
    /\ condition.language = <<LangPosLen - 1, LangPosLen>>
    /\ condition.language_mask # Missing
    /\ condition.language_mask # MaskInEffect

====
